---------------------------- MODULE Spec2Model ----------------------------
(***************************************************************************)
(* A model of the real-time audio intercom of src/intercom_minimal.py      *)
(* (classes Intercom_minimal and Intercom_minimal_debug) and of its        *)
(* script form src/intercom__minimal.py.                                   *)
(*                                                                         *)
(* Three contexts run side by side:                                        *)
(*   - the control context (main thread): constructs the sockets, opens    *)
(*     the stream, then waits for input() or runs the print_feedback loop; *)
(*   - the audio callback record_io_and_play, run by the audio subsystem   *)
(*     in a thread of its own, one invocation at a time;                   *)
(*   - the environment: datagrams arriving at the receiving socket, the    *)
(*     user's console line or interrupt, failing system calls.             *)
(*                                                                         *)
(* A numpy array is a record [kind |-> "ndarray", val |-> rows] (rows: a   *)
(* sequence of frames, each a sequence of int16 samples, one per channel), *)
(* or [kind |-> "flat", val |-> samples] when one-dimensional; a bytes     *)
(* object is [kind |-> "bytes", val |-> sequence of 0..255].               *)
(***************************************************************************)
EXTENDS Integers, Sequences, FiniteSets, TLC

VARIABLES
    args,          \* the parsed command line (set once)
    variant,       \* "debug" | "plain" (intercom_minimal.py) | "script" (intercom__minimal.py)
    main_pc,       \* position of the control context
    exit_status,   \* process exit status, NoStatus while it runs
    quit,          \* how input() or the loop ended: "none" | "line" | "eof" | "interrupt"
    bind_result,   \* "unbound" | "bound" | "failed": receiving_socket.bind
    sending_socket,   \* "none" | "open" | "closed"
    receiving_socket, \* "none" | "open" | "closed"
    stream,        \* "unopened" | "active" | "aborted" | "closed": sd.Stream
    inbox,         \* datagrams queued at receiving_socket, oldest first
    cb_pc,         \* position of the callback thread
    indata,        \* the capture chunk of the current invocation
    outdata,       \* the playback buffer of the current invocation
    packet,        \* local variable packet of record_io_and_play
    chunk,         \* local variable chunk of record_io_and_play
    cb_error,      \* the exception that left the last invocation, or "none"
    cb_tmp,        \* the counter value loaded by a += not yet stored
    trace,         \* socket calls and buffer writes of the current invocation
    invocations,   \* number of invocations started
    spinner,       \* position of the spinning cursor generator
    sent_bytes_counter,
    received_bytes_counter,
    sent_messages_counter,
    received_messages_counter,
    tel_pc,        \* position inside print_feedback / the telemetry loop
    sent,          \* local variable sent of print_feedback
    received,      \* local variable received of print_feedback
    total_sent,
    total_received,
    elapsed_time,  \* local variable elapsed_time of print_feedback, in milliseconds
    CPU_usage,
    CPU_total,
    CPU_samples,
    reports,       \* the lines printed by print_feedback so far
    counted_sent,  \* messages send_packet has counted since the last printed line
    counted_received \* messages receive_packet has counted since the last printed line

vars == <<args, variant, main_pc, exit_status, quit, bind_result,
          sending_socket, receiving_socket, stream, inbox,
          cb_pc, indata, outdata, packet, chunk, cb_error, cb_tmp, trace,
          invocations, spinner,
          sent_bytes_counter, received_bytes_counter,
          sent_messages_counter, received_messages_counter,
          tel_pc, sent, received, total_sent, total_received,
          elapsed_time, CPU_usage, CPU_total, CPU_samples, reports,
          counted_sent, counted_received>>

-----------------------------------------------------------------------------
(* Bounds of the model. *)

MaxFrames == 2
MaxChannels == 2
MaxQueue == 1
MaxInvocations == 1
MaxReports == 2

(* Program constants. *)

MAX_PAYLOAD_BYTES == 32768
ItemSize == 2

(* exit_status while the process runs. *)
NoStatus == 0 - 1

-----------------------------------------------------------------------------
(* Values. *)

None == [kind |-> "none", val |-> <<>>]
NdArray(rows) == [kind |-> "ndarray", val |-> rows]
Flat(samples) == [kind |-> "flat", val |-> samples]
Bytes(data) == [kind |-> "bytes", val |-> data]

(* Samples and bytes the inputs are drawn from: the int16 extremes, a      *)
(* negative value, and 258 = 0x0102 whose two bytes differ.                *)
SampleVals == {-32768, -1, 258, 32767}
ByteVals == {0, 1, 128, 255}

RECURSIVE Concat(_)
(* The concatenation of a sequence of sequences; a long one is halved      *)
(* first, so that long buffers do not nest deeply.                         *)
Concat(seqs) ==
    CASE seqs = <<>> -> <<>>
      [] Len(seqs) \in 1..16 -> Head(seqs) \o Concat(Tail(seqs))
      [] OTHER ->
            Concat(SubSeq(seqs, 1, Len(seqs) \div 2))
                \o Concat(SubSeq(seqs, (Len(seqs) \div 2) + 1, Len(seqs)))

(* The two bytes of an int16 in the host's (little-endian) byte order.     *)
SampleBytes(s) ==
    LET u == (s + 65536) % 65536
    IN  <<u % 256, u \div 256>>

(* Mutant: the two bytes read as an unsigned 16-bit sample.                *)
SampleOf_unsigned(lo, hi) == lo + 256 * hi

(* The int16 held by two bytes in the host's byte order.                   *)
SampleOf(lo, hi) ==
    LET u == lo + 256 * hi
    IN  IF u >= 32768 THEN u - 65536 ELSE u

(* The memory an object exposes through the buffer protocol: a bytes       *)
(* object is its bytes, a C-contiguous array is its samples row by row.    *)
BufferOf(obj) ==
    CASE obj.kind = "bytes" -> obj.val
      [] obj.kind = "flat" -> Concat([i \in 1..Len(obj.val) |-> SampleBytes(obj.val[i])])
      [] obj.kind = "ndarray" ->
            Concat([i \in 1..Len(obj.val) |->
                Concat([j \in 1..Len(obj.val[i]) |-> SampleBytes(obj.val[i][j])])])

(* len(obj): the first dimension of an array, the length of a bytes.       *)
PyLen(obj) == Len(obj.val)

Ok(v) == [ok |-> TRUE, val |-> v, error |-> "none"]
Raise(e) == [ok |-> FALSE, val |-> None, error |-> e]

(* np.frombuffer(buffer, np.int16).                                        *)
frombuffer(obj) ==
    LET b == BufferOf(obj)
    IN  IF Len(b) % ItemSize # 0
        THEN Raise("ValueError")
        ELSE Ok(Flat([i \in 1..(Len(b) \div ItemSize) |-> SampleOf(b[2 * i - 1], b[2 * i])]))

(* Mutant: the samples laid out column by column.                          *)
reshape_by_columns(flat, rows, cols) ==
    IF Len(flat.val) # rows * cols
    THEN Raise("ValueError")
    ELSE Ok(NdArray([i \in 1..rows |-> [j \in 1..cols |-> flat.val[(j - 1) * rows + i]]]))

(* Mutant: a buffer longer than the shape is cut to the shape.             *)
reshape_truncating(flat, rows, cols) ==
    IF Len(flat.val) < rows * cols
    THEN Raise("ValueError")
    ELSE Ok(NdArray([i \in 1..rows |-> [j \in 1..cols |-> flat.val[(i - 1) * cols + j]]]))

(* ndarray.reshape(rows, cols) of a one-dimensional array.                 *)
reshape(flat, rows, cols) ==
    IF Len(flat.val) # rows * cols
    THEN Raise("ValueError")
    ELSE Ok(NdArray([i \in 1..rows |-> [j \in 1..cols |-> flat.val[(i - 1) * cols + j]]]))

(* np.zeros((rows, cols), np.int16).                                       *)
zeros(rows, cols) == NdArray([i \in 1..rows |-> [j \in 1..cols |-> 0]])

pack_chunk(c) == c

unpack_packet(p, a) ==
    LET flat == frombuffer(p)
    IN  IF ~flat.ok
        THEN flat
        ELSE reshape(flat.val, a.frames_per_chunk, a.number_of_channels)

(* Bytes expected in one packet under configuration a.                     *)
PacketSize(a) == a.frames_per_chunk * a.number_of_channels * ItemSize
-----------------------------------------------------------------------------
(* Inputs. *)

(* The command line: the chunk shape varies, the endpoints are the         *)
(* defaults of the argument parser.                                        *)
Configs ==
    {[frames_per_chunk |-> f, number_of_channels |-> c,
      listening_port |-> 4444,
      destination_address |-> "localhost", destination_port |-> 4444] :
        f \in 1..MaxFrames, c \in 1..MaxChannels}

Variants == {"debug", "plain", "script"}

SampleCycle == <<258, -1, 32767, -32768, 0>>

(* A chunk of the configured shape whose samples all differ from their     *)
(* neighbours, numbered by seed.                                           *)
ChunkOf(a, seed) ==
    NdArray([i \in 1..a.frames_per_chunk |->
                [j \in 1..a.number_of_channels |->
                    SampleCycle[((seed + (i - 1) * a.number_of_channels + j - 1) % 5) + 1]]])

(* Chunks the audio device captures: one, with no two equal neighbours.    *)
CaptureChunks(a) == {ChunkOf(a, 0)}

(* What the playback buffer holds when the device hands it over: whatever  *)
(* was left there, here samples no datagram and no capture chunk holds.    *)
StaleBuffers(a) == {ChunkOf(a, 2)}

ByteRamp(n) == [i \in 1..n |-> (i * 85) % 256]

(* Datagrams a peer may send: one of the expected size, and malformed      *)
(* ones: one byte short (no whole number of samples) and one sample long.  *)
Datagrams(a) ==
    {Bytes(BufferOf(ChunkOf(a, 1))),
     Bytes(ByteRamp(PacketSize(a) - 1)),
     Bytes(ByteRamp(PacketSize(a) + ItemSize))}

(* The configurations the stream is run with: chunks of MaxFrames frames,  *)
(* mono or with MaxChannels channels.                                      *)
StreamConfigs ==
    {a \in Configs : /\ a.frames_per_chunk = MaxFrames
                     /\ a.number_of_channels \in {1, MaxChannels}}

(* psutil.cpu_percent() and the milliseconds between two reports.          *)
CpuVals == {50}
ElapsedMs == {1000}

(* Every chunk of the configured shape over SampleVals, and packets of     *)
(* every length up to one sample and one byte more than expected.          *)
AllChunks(a) ==
    {NdArray(rows) :
        rows \in [1..a.frames_per_chunk -> [1..a.number_of_channels -> SampleVals]]}

AllPackets(a) ==
    {Bytes(BufferOf(c)) : c \in AllChunks(a)}
    \cup UNION {{Bytes([i \in 1..n |-> b]) : b \in ByteVals} \cup {Bytes(ByteRamp(n))} :
                    n \in 0..(PacketSize(a) + ItemSize + 1)}

-----------------------------------------------------------------------------
(* Initial state: the command line is parsed, nothing is constructed.      *)

Idle ==
    /\ exit_status = NoStatus
    /\ quit = "none"
    /\ bind_result = "unbound"
    /\ sending_socket = "none"
    /\ receiving_socket = "none"
    /\ stream = "unopened"
    /\ inbox = <<>>
    /\ outdata = None
    /\ chunk = None
    /\ cb_error = "none"
    /\ cb_tmp = 0
    /\ trace = <<>>
    /\ invocations = 0
    /\ spinner = 0
    /\ sent_bytes_counter = 0
    /\ received_bytes_counter = 0
    /\ sent_messages_counter = 0
    /\ received_messages_counter = 0
    /\ tel_pc = "off"
    /\ sent = 0
    /\ received = 0
    /\ total_sent = 0
    /\ total_received = 0
    /\ elapsed_time = 0
    /\ CPU_usage = 0
    /\ CPU_total = 0
    /\ CPU_samples = 0
    /\ reports = <<>>
    /\ counted_sent = 0
    /\ counted_received = 0

Init ==
    /\ args \in StreamConfigs
    /\ variant \in Variants
    /\ main_pc = "construct"
    /\ cb_pc = "idle"
    /\ indata = None
    /\ packet = None
    /\ Idle
-----------------------------------------------------------------------------
(* The callback thread: record_io_and_play, one step per socket call,      *)
(* per counter load or store, and per buffer write.                        *)

cb_vars == <<cb_pc, indata, outdata, packet, chunk, cb_error, cb_tmp, trace,
             invocations, spinner>>
counter_vars == <<sent_bytes_counter, received_bytes_counter,
                  sent_messages_counter, received_messages_counter>>
tel_vars == <<tel_pc, sent, received, total_sent, total_received,
              elapsed_time, CPU_usage, CPU_total, CPU_samples, reports>>
socket_vars == <<sending_socket, receiving_socket>>
main_vars == <<main_pc, exit_status, quit, bind_result, socket_vars>>
config_vars == <<args, variant>>
ghost_vars == <<counted_sent, counted_received>>

Event(op, val, dest, ok) == [op |-> op, val |-> val, dest |-> dest, ok |-> ok]

(* Mutant: the packet goes to the local listening endpoint.                *)
Destination_listening(a) == <<"0.0.0.0", a.listening_port>>

(* The endpoint send_packet sends to.                                      *)
Destination(a) == <<a.destination_address, a.destination_port>>

(* An exception that leaves the callback ends the invocation; the audio    *)
(* subsystem then aborts the stream and invokes the callback no more.      *)
CallbackRaises(e) ==
    /\ cb_error' = e
    /\ cb_pc' = "idle"
    /\ packet' = None
    /\ chunk' = None
    /\ stream' = IF stream = "active" THEN "aborted" ELSE stream

(* The position after send_packet returns to record_io_and_play.           *)
AfterSend == IF variant = "debug" THEN "sb_load" ELSE "receive"

(* The position after receive_packet got a datagram from the socket.       *)
AfterReceive == IF variant = "debug" THEN "rb_load" ELSE "unpack"

(* The device clock fires: a capture chunk and a playback buffer arrive.   *)
CallbackStart ==
    /\ stream = "active"
    /\ cb_pc = "idle"
    /\ invocations < MaxInvocations
    /\ indata' \in CaptureChunks(args)
    /\ outdata' \in StaleBuffers(args)
    /\ packet' = None
    /\ chunk' = None
    /\ cb_error' = "none"
    /\ trace' = <<>>
    /\ invocations' = invocations + 1
    /\ cb_pc' = "send"
    /\ UNCHANGED <<cb_tmp, spinner, stream, inbox, config_vars, main_vars,
                   counter_vars, tel_vars, ghost_vars>>

(* packet = pack_chunk(indata); send_packet(packet): sendto succeeds or    *)
(* raises OSError, which nothing in the callback catches.                  *)
Send ==
    /\ cb_pc = "send"
    /\ \E ok \in BOOLEAN :
        /\ trace' = Append(trace, Event("sendto", Bytes(BufferOf(pack_chunk(indata))),
                                        Destination(args), ok))
        /\ IF ok
           THEN /\ packet' = pack_chunk(indata)
                /\ cb_pc' = AfterSend
                /\ UNCHANGED <<cb_error, stream, chunk>>
           ELSE CallbackRaises("OSError")
    /\ UNCHANGED <<indata, outdata, cb_tmp, invocations, spinner, inbox,
                   config_vars, main_vars, counter_vars, tel_vars, ghost_vars>>

(* Intercom_minimal_debug.send_packet: sent_bytes_counter += ...           *)
SentBytesLoad ==
    /\ cb_pc = "sb_load"
    /\ cb_tmp' = sent_bytes_counter
    /\ cb_pc' = "sb_store"
    /\ UNCHANGED <<indata, outdata, packet, chunk, cb_error, trace, invocations,
                   spinner, stream, inbox, config_vars, main_vars, counter_vars,
                   tel_vars, ghost_vars>>

(* Mutant: len(packet) taken as the packet's length in bytes.              *)
SentBytesStore_byte_length ==
    /\ cb_pc = "sb_store"
    /\ sent_bytes_counter' =
            cb_tmp + Len(BufferOf(packet)) * ItemSize * args.number_of_channels
    /\ cb_tmp' = 0
    /\ cb_pc' = "sm_load"
    /\ UNCHANGED <<indata, outdata, packet, chunk, cb_error, trace,
                   invocations, spinner, stream, inbox, args, variant,
                   main_pc, exit_status, quit, bind_result,
                   sending_socket, receiving_socket,
                   received_bytes_counter, sent_messages_counter,
                   received_messages_counter,
                   tel_pc, sent, received, total_sent, total_received,
                   elapsed_time, CPU_usage, CPU_total, CPU_samples, reports,
                   counted_sent, counted_received>>

SentBytesStore ==
    /\ cb_pc = "sb_store"
    /\ sent_bytes_counter' = cb_tmp + PyLen(packet) * ItemSize * args.number_of_channels
    /\ cb_tmp' = 0
    /\ cb_pc' = "sm_load"
    /\ UNCHANGED <<indata, outdata, packet, chunk, cb_error, trace,
                   invocations, spinner, stream, inbox, config_vars, main_vars,
                   received_bytes_counter, sent_messages_counter,
                   received_messages_counter, tel_vars, ghost_vars>>

(* Intercom_minimal_debug.send_packet: sent_messages_counter += 1          *)
SentMessagesLoad ==
    /\ cb_pc = "sm_load"
    /\ cb_tmp' = sent_messages_counter
    /\ cb_pc' = "sm_store"
    /\ UNCHANGED <<indata, outdata, packet, chunk, cb_error, trace, invocations,
                   spinner, stream, inbox, config_vars, main_vars, counter_vars,
                   tel_vars, ghost_vars>>

SentMessagesStore ==
    /\ cb_pc = "sm_store"
    /\ sent_messages_counter' = cb_tmp + 1
    /\ cb_tmp' = 0
    /\ counted_sent' = counted_sent + 1
    /\ cb_pc' = "receive"
    /\ UNCHANGED <<indata, outdata, packet, chunk, cb_error, trace,
                   invocations, spinner, stream, inbox, config_vars, main_vars,
                   sent_bytes_counter, received_bytes_counter,
                   received_messages_counter, tel_vars, counted_received>>

(* What recvfrom(bufsize) returns of a datagram: its first bufsize bytes.  *)
recvfrom(datagram, bufsize) ==
    Bytes(SubSeq(datagram.val, 1,
                 IF Len(datagram.val) < bufsize THEN Len(datagram.val) ELSE bufsize))

(* Mutant: with no datagram queued the captured chunk is played back.      *)
Receive_echo ==
    /\ cb_pc = "receive"
    /\ IF inbox = <<>>
       THEN /\ trace' = Append(trace, Event("recvfrom", None, <<>>, FALSE))
            /\ chunk' = indata
            /\ cb_pc' = "play"
            /\ UNCHANGED <<packet, inbox>>
       ELSE /\ packet' = Bytes(Head(inbox).val)
            /\ inbox' = Tail(inbox)
            /\ trace' = Append(trace, Event("recvfrom", packet', <<>>, TRUE))
            /\ cb_pc' = IF variant = "debug" THEN "rb_load" ELSE "unpack"
            /\ UNCHANGED chunk
    /\ UNCHANGED <<indata, outdata, cb_error, cb_tmp, invocations, spinner, stream,
                   args, variant, main_pc, exit_status, quit, bind_result,
                   sending_socket, receiving_socket,
                   sent_bytes_counter, received_bytes_counter,
                   sent_messages_counter, received_messages_counter,
                   tel_pc, sent, received, total_sent, total_received,
                   elapsed_time, CPU_usage, CPU_total, CPU_samples, reports,
                   counted_sent, counted_received>>

(* Mutant: the receiving socket blocks until a datagram is queued.         *)
Receive_blocking ==
    /\ cb_pc = "receive"
    /\ inbox # <<>>
    /\ packet' = recvfrom(Head(inbox), MAX_PAYLOAD_BYTES)
    /\ inbox' = Tail(inbox)
    /\ trace' = Append(trace, Event("recvfrom", packet', <<>>, TRUE))
    /\ cb_pc' = AfterReceive
    /\ UNCHANGED <<chunk, indata, outdata, cb_error, cb_tmp, invocations, spinner,
                   stream, args, variant, main_pc, exit_status, quit, bind_result,
                   sending_socket, receiving_socket,
                   sent_bytes_counter, received_bytes_counter,
                   sent_messages_counter, received_messages_counter,
                   tel_pc, sent, received, total_sent, total_received,
                   elapsed_time, CPU_usage, CPU_total, CPU_samples, reports,
                   counted_sent, counted_received>>

(* packet = receive_packet(): the oldest queued datagram, or BlockingIOError, *)
(* which record_io_and_play catches: chunk = np.zeros(...).                *)
Receive ==
    /\ cb_pc = "receive"
    /\ IF inbox = <<>>
       THEN /\ trace' = Append(trace, Event("recvfrom", None, <<>>, FALSE))
            /\ chunk' = zeros(args.frames_per_chunk, args.number_of_channels)
            /\ cb_pc' = "play"
            /\ UNCHANGED <<packet, inbox>>
       ELSE /\ packet' = recvfrom(Head(inbox), MAX_PAYLOAD_BYTES)
            /\ inbox' = Tail(inbox)
            /\ trace' = Append(trace, Event("recvfrom", packet', <<>>, TRUE))
            /\ cb_pc' = AfterReceive
            /\ UNCHANGED chunk
    /\ UNCHANGED <<indata, outdata, cb_error, cb_tmp, invocations, spinner, stream,
                   config_vars, main_vars, counter_vars, tel_vars, ghost_vars>>

(* Intercom_minimal_debug.receive_packet: received_bytes_counter += len(packet) *)
ReceivedBytesLoad ==
    /\ cb_pc = "rb_load"
    /\ cb_tmp' = received_bytes_counter
    /\ cb_pc' = "rb_store"
    /\ UNCHANGED <<indata, outdata, packet, chunk, cb_error, trace, invocations,
                   spinner, stream, inbox, config_vars, main_vars, counter_vars,
                   tel_vars, ghost_vars>>

ReceivedBytesStore ==
    /\ cb_pc = "rb_store"
    /\ received_bytes_counter' = cb_tmp + PyLen(packet)
    /\ cb_tmp' = 0
    /\ cb_pc' = "rm_load"
    /\ UNCHANGED <<indata, outdata, packet, chunk, cb_error, trace,
                   invocations, spinner, stream, inbox, config_vars, main_vars,
                   sent_bytes_counter, sent_messages_counter,
                   received_messages_counter, tel_vars, ghost_vars>>

(* Intercom_minimal_debug.receive_packet: received_messages_counter += 1   *)
ReceivedMessagesLoad ==
    /\ cb_pc = "rm_load"
    /\ cb_tmp' = received_messages_counter
    /\ cb_pc' = "rm_store"
    /\ UNCHANGED <<indata, outdata, packet, chunk, cb_error, trace, invocations,
                   spinner, stream, inbox, config_vars, main_vars, counter_vars,
                   tel_vars, ghost_vars>>

(* Mutant: the instrumented receive counts the datagram and then reports   *)
(* that nothing was there.                                                 *)
ReceivedMessagesStore_dropping ==
    /\ cb_pc = "rm_store"
    /\ received_messages_counter' = cb_tmp + 1
    /\ cb_tmp' = 0
    /\ counted_received' = counted_received + 1
    /\ chunk' = zeros(args.frames_per_chunk, args.number_of_channels)
    /\ cb_pc' = "play"
    /\ UNCHANGED <<indata, outdata, packet, cb_error, trace,
                   invocations, spinner, stream, inbox, args, variant,
                   main_pc, exit_status, quit, bind_result,
                   sending_socket, receiving_socket,
                   sent_bytes_counter, received_bytes_counter,
                   sent_messages_counter,
                   tel_pc, sent, received, total_sent, total_received,
                   elapsed_time, CPU_usage, CPU_total, CPU_samples, reports,
                   counted_sent>>

ReceivedMessagesStore ==
    /\ cb_pc = "rm_store"
    /\ received_messages_counter' = cb_tmp + 1
    /\ cb_tmp' = 0
    /\ counted_received' = counted_received + 1
    /\ cb_pc' = "unpack"
    /\ UNCHANGED <<indata, outdata, packet, chunk, cb_error, trace,
                   invocations, spinner, stream, inbox, config_vars, main_vars,
                   sent_bytes_counter, received_bytes_counter,
                   sent_messages_counter, tel_vars, counted_sent>>

(* chunk = unpack_packet(packet): a ValueError of frombuffer or reshape is *)
(* no BlockingIOError and leaves the callback.                             *)
Unpack ==
    /\ cb_pc = "unpack"
    /\ LET r == unpack_packet(packet, args)
       IN  IF r.ok
           THEN /\ chunk' = r.val
                /\ cb_pc' = "play"
                /\ UNCHANGED <<cb_error, stream, packet>>
           ELSE CallbackRaises(r.error)
    /\ UNCHANGED <<indata, outdata, cb_tmp, trace, invocations, spinner,
                   inbox, config_vars, main_vars, counter_vars, tel_vars, ghost_vars>>

(* Whether this build prints the spinning cursor after each chunk.         *)
PrintsSpinner == variant \in {"debug", "script"}

(* outdata[:] = chunk, then the spinning cursor.                           *)
Play ==
    /\ cb_pc = "play"
    /\ outdata' = chunk
    /\ trace' = Append(trace, Event("write", chunk, <<>>, TRUE))
    /\ spinner' = IF PrintsSpinner THEN (spinner + 1) % 4 ELSE spinner
    /\ cb_pc' = "idle"
    /\ packet' = None
    /\ chunk' = None
    /\ UNCHANGED <<indata, cb_error, cb_tmp, invocations, stream,
                   inbox, config_vars, main_vars, counter_vars, tel_vars, ghost_vars>>

(* A datagram reaches the receiving socket.  Only receive_packet looks at  *)
(* the queue, so an arrival is taken when the callback stands at its       *)
(* receive, or before its send, whose failure leaves the datagram queued.  *)
Arrive ==
    /\ bind_result = "bound"
    /\ main_pc # "exited"
    /\ cb_pc \in {"send", "receive"}
    /\ Len(inbox) < MaxQueue
    /\ \E d \in Datagrams(args) : inbox' = Append(inbox, d)
    /\ UNCHANGED <<cb_vars, stream, config_vars, main_vars, counter_vars,
                   tel_vars, ghost_vars>>
-----------------------------------------------------------------------------
(* The control context.                                                    *)

Str(t) == [kind |-> "str", val |-> t]

(* sys.exit(arg): an integer is the status, None is status 0, any other    *)
(* object is printed to stderr and the status is 1.                        *)
sys_exit(arg) ==
    CASE arg.kind = "int" -> arg.val
      [] arg.kind = "none" -> 0
      [] OTHER -> 1

(* argparse's parser.exit(status=0, message=None): its first positional    *)
(* argument is the status handed to sys.exit.                              *)
parser_exit(status) == sys_exit(status)

(* The status of an interpreter that ends on an exception nothing caught.  *)
UncaughtException == sys_exit(Str("Traceback"))

Exit(status) ==
    /\ main_pc' = "exited"
    /\ exit_status' = status

(* What the constructor (or the script's preamble) can run into: the bind  *)
(* fails, or sd.query_devices rejects the input device.                    *)
ConstructOutcomes ==
    IF variant = "plain" THEN {"ok", "bind_failed"}
    ELSE {"ok", "bind_failed", "device_failed"}

(* The status after a failure while constructing: the script catches it    *)
(* and calls parser.exit(text), the classes are built outside any try.     *)
ConstructFailure ==
    IF variant = "script" THEN parser_exit(Str("OSError")) ELSE UncaughtException

(* socket.socket(AF_INET, SOCK_DGRAM), twice.  No statement of the program *)
(* closes either socket afterwards: they stay open for as long as the      *)
(* process lives.                                                          *)
SocketsCreated ==
    /\ sending_socket' = "open"
    /\ receiving_socket' = "open"

(* Mutant: a failed bind is swallowed and startup goes on.                 *)
Construct_ignoring_bind ==
    /\ main_pc = "construct"
    /\ \E bound \in BOOLEAN :
        bind_result' = IF bound THEN "bound" ELSE "failed"
    /\ main_pc' = "run"
    /\ sending_socket' = "open"
    /\ receiving_socket' = "open"
    /\ UNCHANGED <<exit_status, quit, stream, inbox, cb_pc, indata, outdata, packet,
                   chunk, cb_error, cb_tmp, trace, invocations, spinner,
                   args, variant,
                   sent_bytes_counter, received_bytes_counter,
                   sent_messages_counter, received_messages_counter,
                   tel_pc, sent, received, total_sent, total_received,
                   elapsed_time, CPU_usage, CPU_total, CPU_samples, reports,
                   counted_sent, counted_received>>

(* Intercom_minimal.__init__ / Intercom_minimal_debug.__init__ / the       *)
(* script's lines 52-59.                                                   *)
Construct ==
    /\ main_pc = "construct"
    /\ \E outcome \in ConstructOutcomes :
        CASE outcome = "ok" ->
                /\ bind_result' = "bound"
                /\ SocketsCreated
                /\ main_pc' = "run"
                /\ UNCHANGED exit_status
          [] outcome = "bind_failed" ->
                /\ bind_result' = "failed"
                /\ SocketsCreated
                /\ Exit(ConstructFailure)
          [] outcome = "device_failed" ->
                /\ bind_result' = IF variant = "script" THEN "unbound" ELSE "bound"
                /\ IF variant = "script" THEN UNCHANGED socket_vars ELSE SocketsCreated
                /\ Exit(ConstructFailure)
    /\ UNCHANGED <<quit, stream, inbox, cb_vars, config_vars, counter_vars,
                   tel_vars, ghost_vars>>

(* run(): the stream opens and the callback is installed, or sd.Stream     *)
(* raises and the handler of the last resort calls parser.exit(text).      *)
RunStart ==
    /\ main_pc = "run"
    /\ \E opened \in BOOLEAN :
        IF opened
        THEN /\ stream' = "active"
             /\ main_pc' = "waiting"
             /\ tel_pc' = IF variant = "debug" THEN "feedback" ELSE "off"
             /\ UNCHANGED exit_status
        ELSE /\ Exit(parser_exit(Str("PortAudioError")))
             /\ UNCHANGED <<stream, tel_pc>>
    /\ total_sent' = 0
    /\ total_received' = 0
    /\ UNCHANGED <<quit, bind_result, socket_vars, inbox, cb_vars, config_vars,
                   counter_vars, sent, received, elapsed_time, CPU_usage, CPU_total, CPU_samples,
                   reports, ghost_vars>>

(* input() returns a line, raises EOFError, or raises KeyboardInterrupt;   *)
(* in the debug class an interrupt ends the print_feedback loop.           *)
QuitSignals == IF variant = "debug" THEN {"interrupt"} ELSE {"line", "eof", "interrupt"}

UserQuits ==
    /\ main_pc = "waiting"
    /\ \E how \in QuitSignals : quit' = how
    /\ main_pc' = "closing"
    /\ UNCHANGED <<exit_status, bind_result, socket_vars, stream, inbox, cb_vars,
                   config_vars, counter_vars, tel_vars, ghost_vars>>

(* The status the process ends with once the with-block is left.           *)
QuitStatus ==
    CASE quit = "line" -> sys_exit(None)
      [] quit = "eof" -> parser_exit(Str("EOFError"))
      [] quit = "interrupt" ->
            IF variant = "debug"
            THEN sys_exit(None)
            ELSE parser_exit(Str("Interrupted by user"))

(* Leaving the with-block closes the stream, once the callback in flight   *)
(* has returned; then the process ends.                                    *)
CloseStream ==
    /\ main_pc = "closing"
    /\ cb_pc = "idle"
    /\ stream' = "closed"
    /\ Exit(QuitStatus)
    /\ UNCHANGED <<quit, bind_result, socket_vars, inbox, cb_vars, config_vars,
                   counter_vars, tel_vars, ghost_vars>>

-----------------------------------------------------------------------------
(* Intercom_minimal_debug.print_feedback and its loop, one step per        *)
(* statement that reads or writes a counter.                               *)

(* int(counter*8/1000/elapsed_time), elapsed_time in milliseconds.         *)
Kbps(bytes, ms) == (bytes * 8) \div ms

(* Lines 219-225: CPU statistics, elapsed time, sent.                      *)
FeedbackSent ==
    /\ main_pc = "waiting"
    /\ tel_pc = "feedback"
    /\ Len(reports) < MaxReports
    /\ \E cpu \in CpuVals, ms \in ElapsedMs :
        /\ CPU_usage' = cpu
        /\ CPU_total' = CPU_total + cpu
        /\ elapsed_time' = ms
        /\ sent' = Kbps(sent_bytes_counter, ms)
    /\ CPU_samples' = CPU_samples + 1
    /\ tel_pc' = "received"
    /\ UNCHANGED <<received, total_sent, total_received, reports, main_vars,
                   stream, inbox, cb_vars, config_vars, counter_vars, ghost_vars>>

(* Lines 226-228: received, and the totals.                                *)
FeedbackReceived ==
    /\ main_pc = "waiting"
    /\ tel_pc = "received"
    /\ received' = Kbps(received_bytes_counter, elapsed_time)
    /\ total_sent' = total_sent + sent
    /\ total_received' = total_received + received'
    /\ tel_pc' = "print"
    /\ UNCHANGED <<sent, elapsed_time, CPU_usage, CPU_total, CPU_samples, reports,
                   main_vars, stream, inbox, cb_vars, config_vars, counter_vars,
                   ghost_vars>>

(* Line 229: the printed line.                                             *)
FeedbackPrint ==
    /\ main_pc = "waiting"
    /\ tel_pc = "print"
    /\ reports' = Append(reports,
            [sent_messages |-> sent_messages_counter,
             received_messages |-> received_messages_counter,
             sent |-> sent, received |-> received,
             total_sent |-> total_sent, total_received |-> total_received,
             CPU_usage |-> CPU_usage, CPU_average |-> CPU_total \div CPU_samples,
             counted_sent |-> counted_sent, counted_received |-> counted_received])
    /\ counted_sent' = 0
    /\ counted_received' = 0
    /\ tel_pc' = "reset_sent_bytes"
    /\ UNCHANGED <<sent, received, total_sent, total_received, elapsed_time,
                   CPU_usage, CPU_total, CPU_samples, main_vars, stream, inbox,
                   cb_vars, config_vars, counter_vars>>

(* Lines 230-233: the four counters are set to 0, one statement each.      *)
ResetSentBytes ==
    /\ main_pc = "waiting"
    /\ tel_pc = "reset_sent_bytes"
    /\ sent_bytes_counter' = 0
    /\ tel_pc' = "reset_received_bytes"
    /\ UNCHANGED <<received_bytes_counter, sent_messages_counter,
                   received_messages_counter, sent, received, total_sent,
                   total_received, elapsed_time, CPU_usage, CPU_total, CPU_samples,
                   reports, main_vars, stream, inbox, cb_vars, config_vars, ghost_vars>>

ResetReceivedBytes ==
    /\ main_pc = "waiting"
    /\ tel_pc = "reset_received_bytes"
    /\ received_bytes_counter' = 0
    /\ tel_pc' = "reset_sent_messages"
    /\ UNCHANGED <<sent_bytes_counter, sent_messages_counter,
                   received_messages_counter, sent, received, total_sent,
                   total_received, elapsed_time, CPU_usage, CPU_total, CPU_samples,
                   reports, main_vars, stream, inbox, cb_vars, config_vars, ghost_vars>>

ResetSentMessages ==
    /\ main_pc = "waiting"
    /\ tel_pc = "reset_sent_messages"
    /\ sent_messages_counter' = 0
    /\ tel_pc' = "reset_received_messages"
    /\ UNCHANGED <<sent_bytes_counter, received_bytes_counter,
                   received_messages_counter, sent, received, total_sent,
                   total_received, elapsed_time, CPU_usage, CPU_total, CPU_samples,
                   reports, main_vars, stream, inbox, cb_vars, config_vars, ghost_vars>>

ResetReceivedMessages ==
    /\ main_pc = "waiting"
    /\ tel_pc = "reset_received_messages"
    /\ received_messages_counter' = 0
    /\ tel_pc' = "sleep"
    /\ UNCHANGED <<sent_bytes_counter, received_bytes_counter,
                   sent_messages_counter, sent, received, total_sent,
                   total_received, elapsed_time, CPU_usage, CPU_total, CPU_samples,
                   reports, main_vars, stream, inbox, cb_vars, config_vars, ghost_vars>>

(* Line 253: time.sleep(1), then the loop calls print_feedback again.      *)
Sleep ==
    /\ main_pc = "waiting"
    /\ tel_pc = "sleep"
    /\ tel_pc' = "feedback"
    /\ UNCHANGED <<sent, received, total_sent, total_received, elapsed_time,
                   CPU_usage, CPU_total, CPU_samples, reports, main_vars, stream,
                   inbox, cb_vars, config_vars, counter_vars, ghost_vars>>

-----------------------------------------------------------------------------

Callback ==
    \/ CallbackStart
    \/ Send
    \/ SentBytesLoad
    \/ SentBytesStore
    \/ SentMessagesLoad
    \/ SentMessagesStore
    \/ Receive
    \/ ReceivedBytesLoad
    \/ ReceivedBytesStore
    \/ ReceivedMessagesLoad
    \/ ReceivedMessagesStore
    \/ Unpack
    \/ Play

Control ==
    \/ Construct
    \/ RunStart
    \/ UserQuits
    \/ CloseStream

Telemetry ==
    \/ FeedbackSent
    \/ FeedbackReceived
    \/ FeedbackPrint
    \/ ResetSentBytes
    \/ ResetReceivedBytes
    \/ ResetSentMessages
    \/ ResetReceivedMessages
    \/ Sleep

Next == Callback \/ Control \/ Telemetry \/ Arrive

Spec == Init /\ [][Next]_vars
-----------------------------------------------------------------------------
(* The codec alone: pack_chunk and unpack_packet applied to every chunk of *)
(* every shape, and unpack_packet to packets of every length.              *)

CodecInit ==
    /\ args \in Configs
    /\ variant = "plain"
    /\ main_pc = "codec"
    /\ \/ /\ cb_pc = "codec_pack"
          /\ indata \in AllChunks(args)
          /\ packet = None
       \/ /\ cb_pc = "codec_unpack"
          /\ indata = None
          /\ packet \in AllPackets(args)
    /\ Idle

CodecPack ==
    /\ cb_pc = "codec_pack"
    /\ packet' = pack_chunk(indata)
    /\ cb_pc' = "codec_unpack"
    /\ UNCHANGED <<indata, outdata, chunk, cb_error, cb_tmp, trace, invocations,
                   spinner, stream, inbox, config_vars, main_vars, counter_vars,
                   tel_vars, ghost_vars>>

CodecUnpack ==
    /\ cb_pc = "codec_unpack"
    /\ LET r == unpack_packet(packet, args)
       IN  /\ chunk' = r.val
           /\ cb_error' = r.error
    /\ cb_pc' = "codec_done"
    /\ UNCHANGED <<indata, outdata, packet, cb_tmp, trace, invocations,
                   spinner, stream, inbox, config_vars, main_vars, counter_vars,
                   tel_vars, ghost_vars>>

CodecNext == CodecPack \/ CodecUnpack

CodecSpec == CodecInit /\ [][CodecNext]_vars
-----------------------------------------------------------------------------
(* The builds without telemetry (Intercom_minimal under python -O, and the *)
(* script) started with a chunk shape whose packet is one sample larger    *)
(* than MAX_PAYLOAD_BYTES.                                                 *)

OversizedConfigs ==
    {[frames_per_chunk |-> (MAX_PAYLOAD_BYTES \div ItemSize) + 1,
      number_of_channels |-> 1,
      listening_port |-> 4444,
      destination_address |-> "localhost", destination_port |-> 4444]}

OversizeInit ==
    /\ args \in OversizedConfigs
    /\ variant \in {"plain", "script"}
    /\ main_pc = "construct"
    /\ cb_pc = "idle"
    /\ indata = None
    /\ packet = None
    /\ Idle

OversizeNext ==
    \/ Construct
    \/ RunStart
    \/ UserQuits
    \/ CloseStream
    \/ CallbackStart
    \/ Send
    \/ Receive
    \/ Unpack
    \/ Play
    \/ Arrive

OversizeSpec == OversizeInit /\ [][OversizeNext]_vars
-----------------------------------------------------------------------------
(* Properties.                                                             *)

(* The events of one kind in the trace of the current (or last) invocation. *)
EventsOf(op) == {i \in DOMAIN trace : trace[i].op = op}

(* The invocation that was started last has returned or raised.            *)
InvocationOver == invocations > 0 /\ cb_pc = "idle"

(* frames_per_chunk x number_of_channels samples, all zero.                *)
Silence(a) ==
    NdArray([i \in 1..a.frames_per_chunk |-> [j \in 1..a.number_of_channels |-> 0]])

(* Sample number n (from 1) of a byte sequence, as a signed 16-bit value.  *)
SampleAt(bytes, n) ==
    LET u == bytes[2 * n - 1] + 256 * bytes[2 * n]
    IN  IF u >= 32768 THEN u - 65536 ELSE u

(* The samples of a datagram in order, frame after frame.                  *)
Decoded(bytes, a) ==
    NdArray([i \in 1..a.frames_per_chunk |->
                [j \in 1..a.number_of_channels |->
                    SampleAt(bytes, (i - 1) * a.number_of_channels + j)]])

(* The bytes of a chunk: sample after sample, frame after frame, two bytes *)
(* each, low byte first.                                                   *)
Encoded(c, a) ==
    [k \in 1..(a.frames_per_chunk * a.number_of_channels * 2) |->
        LET n == (k + 1) \div 2
            s == c.val[((n - 1) \div a.number_of_channels) + 1]
                      [((n - 1) % a.number_of_channels) + 1]
            u == (s + 65536) % 65536
        IN  IF k % 2 = 1 THEN u % 256 ELSE u \div 256]

(* C1: when the receive of an invocation finds no datagram, the invocation *)
(* ends without error and the playback buffer holds frames_per_chunk x     *)
(* number_of_channels zero samples, whatever was captured and sent.        *)
C1_SilenceWhenNoDatagram ==
    (InvocationOver /\ \E i \in EventsOf("recvfrom") : ~trace[i].ok)
        => /\ cb_error = "none"
           /\ outdata = Silence(args)
           /\ \E w \in EventsOf("write") : trace[w].val = Silence(args)

C1_Witness ==
    /\ InvocationOver
    /\ \E i \in EventsOf("recvfrom") : ~trace[i].ok
    /\ indata # Silence(args)
    /\ outdata = Silence(args)

(* C2: when the receive of an invocation returns a datagram of exactly     *)
(* frames_per_chunk x number_of_channels x 2 bytes, the invocation ends    *)
(* without error and the playback buffer holds the datagram's samples in   *)
(* order, unchanged.                                                       *)
C2_PlaysDecodedDatagram ==
    \A i \in EventsOf("recvfrom") :
        (InvocationOver /\ trace[i].ok /\ Len(trace[i].val.val) = PacketSize(args))
            => /\ cb_error = "none"
               /\ outdata = Decoded(trace[i].val.val, args)

C2_Witness ==
    /\ InvocationOver
    /\ \E i \in EventsOf("recvfrom") :
        /\ trace[i].ok
        /\ Len(trace[i].val.val) = PacketSize(args)
        /\ outdata = Decoded(trace[i].val.val, args)
    /\ outdata # Silence(args)
    /\ args.number_of_channels > 1

(* C3 (as claimed): a received datagram of any other length is treated     *)
(* like no datagram: the playback buffer holds silence and no error leaves *)
(* the callback.                                                           *)
C3_MalformedPlaysSilence ==
    \A i \in EventsOf("recvfrom") :
        (InvocationOver /\ trace[i].ok /\ Len(trace[i].val.val) # PacketSize(args))
            => /\ cb_error = "none"
               /\ outdata = Silence(args)

(* C4 (as claimed): a failed send prevents neither the receive attempt nor *)
(* the playback write of the same invocation, and does not abort it.       *)
C4_SendFailureDoesNotAbort ==
    (InvocationOver /\ \E i \in EventsOf("sendto") : ~trace[i].ok)
        => /\ cb_error = "none"
           /\ EventsOf("recvfrom") # {}
           /\ EventsOf("write") # {}

(* C5: every invocation performs exactly one send, first of all its socket *)
(* calls and buffer writes: its payload is the encoding of the invocation's *)
(* capture chunk, its destination the configured peer endpoint; at most    *)
(* one receive attempt and one playback write follow it.                   *)
C5_OneSendFirst ==
    (invocations > 0 /\ cb_pc # "send")
        => /\ EventsOf("sendto") = {1}
           /\ trace[1].val = Bytes(Encoded(indata, args))
           /\ trace[1].dest = <<args.destination_address, args.destination_port>>
           /\ Cardinality(EventsOf("recvfrom")) <= 1
           /\ Cardinality(EventsOf("write")) <= 1
           /\ \A r \in EventsOf("recvfrom"), w \in EventsOf("write") : r < w

C5_Witness ==
    /\ InvocationOver
    /\ Len(trace) = 3
    /\ trace[1].op = "sendto" /\ trace[1].ok
    /\ trace[2].op = "recvfrom"
    /\ trace[3].op = "write"
    /\ indata # Silence(args)

(* C6: for every chunk of the configured shape, unpack_packet(pack_chunk(  *)
(* chunk)) is that chunk.                                                  *)
C6_RoundTrip ==
    (cb_pc = "codec_done" /\ indata # None)
        => /\ cb_error = "none"
           /\ chunk = indata

C6_Witness ==
    /\ cb_pc = "codec_done"
    /\ indata # None
    /\ chunk = indata
    /\ args.frames_per_chunk > 1
    /\ args.number_of_channels > 1
    /\ indata.val[1][1] = -32768
    /\ indata.val[1][2] = 258

(* C7: unpack_packet returns a chunk only for a packet of exactly          *)
(* frames_per_chunk x number_of_channels x 2 bytes, and then one of the    *)
(* configured shape; for a packet of any other length it raises and        *)
(* returns nothing.                                                        *)
C7_RejectsOtherLengths ==
    cb_pc = "codec_done"
        => IF Len(BufferOf(packet)) = PacketSize(args)
           THEN cb_error = "none"
                => /\ Len(chunk.val) = args.frames_per_chunk
                   /\ \A i \in DOMAIN chunk.val :
                        Len(chunk.val[i]) = args.number_of_channels
           ELSE /\ cb_error = "ValueError"
                /\ chunk = None

C7_Witness ==
    /\ cb_pc = "codec_done"
    /\ Len(BufferOf(packet)) = PacketSize(args) + ItemSize
    /\ cb_error = "ValueError"
    /\ chunk = None

(* C8 (as claimed): every printed line shows as message counts the number  *)
(* of messages the callback has sent and received since the line before,   *)
(* the counters are 0 once the report is done and the callback has counted *)
(* nothing since, and the totals never decrease from one line to the next. *)
C8_ReportsExactCounts ==
    /\ \A i \in DOMAIN reports :
        /\ reports[i].sent_messages = reports[i].counted_sent
        /\ reports[i].received_messages = reports[i].counted_received
        /\ i > 1 => /\ reports[i].total_sent >= reports[i - 1].total_sent
                    /\ reports[i].total_received >= reports[i - 1].total_received
    /\ (tel_pc = "sleep" /\ cb_pc = "idle" /\ counted_sent = 0 /\ counted_received = 0)
        => /\ sent_bytes_counter = 0
           /\ received_bytes_counter = 0
           /\ sent_messages_counter = 0
           /\ received_messages_counter = 0

(* C9 (as claimed): the process ends with status 0 on every quit the user  *)
(* asked for (a console line, an interrupt while waiting), and with        *)
(* another status only when startup failed.                                *)
C9_ExitStatus ==
    main_pc = "exited"
        => /\ quit \in {"line", "interrupt"} => exit_status = 0
           /\ exit_status # 0 => stream = "unopened"

(* C10: once the bind of the receiving socket has failed, the process has  *)
(* ended with a status other than 0, the stream was never opened and the   *)
(* callback never invoked.                                                 *)
C10_BindFailureAbortsStartup ==
    bind_result = "failed"
        => /\ main_pc = "exited"
           /\ exit_status # 0
           /\ stream = "unopened"
           /\ invocations = 0

C10_Witness ==
    /\ bind_result = "failed"
    /\ main_pc = "exited"
    /\ exit_status = 1

(* C11 (as claimed): a configuration whose packet size exceeds             *)
(* MAX_PAYLOAD_BYTES never gets its stream opened nor its callback         *)
(* invoked, and no send or receive carries more than MAX_PAYLOAD_BYTES     *)
(* bytes.                                                                  *)
C11_OversizedConfigRejected ==
    PacketSize(args) > MAX_PAYLOAD_BYTES
        => /\ stream = "unopened"
           /\ invocations = 0
           /\ \A i \in EventsOf("sendto") \cup EventsOf("recvfrom") :
                Len(trace[i].val.val) <= MAX_PAYLOAD_BYTES

(* C12 (as claimed): once the process has ended on the user's quit signal, *)
(* the stream is closed, no invocation is running, and the sending and the *)
(* receiving socket have both been closed.                                 *)
C12_TeardownOnQuit ==
    (main_pc = "exited" /\ quit # "none")
        => /\ stream = "closed"
           /\ cb_pc = "idle"
           /\ sending_socket = "closed"
           /\ receiving_socket = "closed"

(* What Intercom_minimal.record_io_and_play does with a capture chunk, the *)
(* outcome of its send and the datagram its receive returns (None when the *)
(* queue is empty): the socket calls and the buffer write, in order.       *)
CoreTrace(capture, send_ok, datagram) ==
    LET sending == Event("sendto", Bytes(BufferOf(capture)), Destination(args), send_ok)
        decoded == unpack_packet(datagram, args)
    IN  CASE ~send_ok -> <<sending>>
          [] send_ok /\ datagram = None ->
                <<sending, Event("recvfrom", None, <<>>, FALSE),
                  Event("write", Silence(args), <<>>, TRUE)>>
          [] send_ok /\ datagram # None /\ decoded.ok ->
                <<sending, Event("recvfrom", datagram, <<>>, TRUE),
                  Event("write", decoded.val, <<>>, TRUE)>>
          [] OTHER -> <<sending, Event("recvfrom", datagram, <<>>, TRUE)>>

(* The exception that leaves that invocation, or "none".                   *)
CoreError(send_ok, datagram) ==
    CASE ~send_ok -> "OSError"
      [] send_ok /\ datagram # None /\ ~unpack_packet(datagram, args).ok -> "ValueError"
      [] OTHER -> "none"

(* What the receive of the current invocation returned (None: nothing).    *)
ReceivedDatagram == IF Len(trace) >= 2 THEN trace[2].val ELSE None

(* The variables print_feedback and its loop must leave alone: everything  *)
(* but the counters, the totals and the CPU statistics.                    *)
core_vars == <<cb_pc, indata, outdata, packet, chunk, cb_error, cb_tmp, trace,
               invocations, spinner, stream, inbox, main_pc, exit_status, quit,
               bind_result, sending_socket, receiving_socket, args, variant>>

(* C13: in every variant, instrumented or not, a finished invocation has   *)
(* made exactly the socket calls and the playback write the plain callback *)
(* makes for the same capture chunk, send outcome and received datagram,   *)
(* and has ended with the same error; and no step of print_feedback or of  *)
(* its loop changes anything but counters, totals and CPU statistics.      *)
C13_TelemetryDoesNotInfluenceCore ==
    /\ [](InvocationOver
            => /\ trace = CoreTrace(indata, trace[1].ok, ReceivedDatagram)
               /\ cb_error = CoreError(trace[1].ok, ReceivedDatagram)
               /\ \A w \in EventsOf("write") : outdata = trace[w].val)
    /\ [][(tel_pc # "off" /\ tel_pc' # tel_pc) => UNCHANGED core_vars]_vars

C13_Witness ==
    /\ variant = "debug"
    /\ InvocationOver
    /\ Len(reports) > 0
    /\ received_messages_counter > 0
    /\ Len(trace) = 3
    /\ trace[2].ok
    /\ outdata = Decoded(trace[2].val.val, args)

(* print_feedback or its loop has a statement left to run.                 *)
TelemetryRunning ==
    /\ main_pc = "waiting"
    /\ tel_pc # "off"
    /\ ~(tel_pc = "feedback" /\ Len(reports) >= MaxReports)

(* C14: an invocation in flight always has a next step it can take,        *)
(* wherever print_feedback stands, and print_feedback always has one       *)
(* wherever the invocation stands; a receive that finds the queue empty is *)
(* such a step, and it leads straight to the playback write without any    *)
(* datagram having arrived.                                                *)
C14_NeverWait ==
    /\ [](/\ cb_pc # "idle" => ENABLED Callback
          /\ TelemetryRunning => ENABLED Telemetry
          /\ (cb_pc = "receive" /\ inbox = <<>>) => ENABLED Receive)
    /\ [][(cb_pc = "receive" /\ inbox = <<>> /\ cb_pc' # cb_pc)
            => /\ cb_pc' = "play"
               /\ inbox' = <<>>
               /\ chunk' = Silence(args)]_vars

C14_Witness ==
    /\ variant = "debug"
    /\ tel_pc \in {"received", "print", "reset_sent_bytes", "reset_received_bytes",
                    "reset_sent_messages", "reset_received_messages"}
    /\ cb_pc = "play"
    /\ inbox = <<>>
    /\ Len(trace) = 2
    /\ ~trace[2].ok

(* C15 (as claimed): the queue changes only by an arrival at its end or by *)
(* the callback taking its oldest datagram; an invocation takes at most    *)
(* one; an invocation that has ended took one whenever one was queued, so  *)
(* none it could have taken is left behind; and the one it took is what it *)
(* played.                                                                 *)
C15_TakesOldestOnePerInvocation ==
    /\ [][inbox' # inbox
            => \/ \E d \in Datagrams(args) : inbox' = Append(inbox, d)
               \/ /\ inbox # <<>>
                  /\ inbox' = Tail(inbox)
                  /\ trace' = Append(trace, Event("recvfrom", Head(inbox), <<>>, TRUE))]_vars
    /\ [](/\ Cardinality({i \in EventsOf("recvfrom") : trace[i].ok}) <= 1
          /\ (InvocationOver /\ \A i \in EventsOf("recvfrom") : ~trace[i].ok)
                => inbox = <<>>
          /\ \A i \in EventsOf("recvfrom") :
                (InvocationOver /\ trace[i].ok)
                    => \E w \in EventsOf("write") :
                            /\ w > i
                            /\ BufferOf(trace[w].val) = trace[i].val.val)

(* The sum of one field over the first n printed lines.                    *)
RECURSIVE Printed(_, _)
Printed(field, n) == IF n = 0 THEN 0 ELSE reports[n][field] + Printed(field, n - 1)

(* No increment is in flight and print_feedback stands neither between its *)
(* print and the end of its resets.                                        *)
CountersAtRest ==
    /\ cb_pc = "idle"
    /\ tel_pc \in {"off", "feedback", "received", "print", "sleep"}

(* C16 (as claimed): whenever the counters are at rest, the message counts *)
(* printed so far plus the current counter equal the number of messages    *)
(* the callback has counted, sent and received alike.                      *)
C16_NoCountLost ==
    CountersAtRest
        => /\ Printed("sent_messages", Len(reports)) + sent_messages_counter
                = Printed("counted_sent", Len(reports)) + counted_sent
           /\ Printed("received_messages", Len(reports)) + received_messages_counter
                = Printed("counted_received", Len(reports)) + counted_received

(* The successful sends, and the receives that returned a datagram, of the *)
(* current invocation.                                                     *)
SendsDone == {i \in EventsOf("sendto") : trace[i].ok}
ReceivesDone == {i \in EventsOf("recvfrom") : trace[i].ok}

(* print_feedback has not reset any counter yet.                           *)
NoResetYet ==
    /\ reports = <<>>
    /\ tel_pc \in {"off", "feedback", "received", "print"}

(* C17: a step of the instrumented callback changes a counter only by      *)
(* storing the value its += read plus the amount due: frames_per_chunk x   *)
(* number_of_channels x 2 and 1 after a successful send, the datagram's    *)
(* length and 1 after a receive that returned one; every other step of the *)
(* callback leaves the four counters alone.  So when the first invocation  *)
(* has ended and nothing has been reset, the counters hold exactly that    *)
(* for its send if it succeeded and for its datagram if it got one, even a *)
(* malformed one, and 0 otherwise.                                         *)
C17_CountsWhatHappened ==
    /\ [][cb_pc' # cb_pc
            => CASE cb_pc = "sb_store" ->
                        /\ SendsDone # {}
                        /\ sent_bytes_counter' = cb_tmp + PacketSize(args)
                        /\ UNCHANGED <<received_bytes_counter, sent_messages_counter,
                                       received_messages_counter>>
                 [] cb_pc = "sm_store" ->
                        /\ SendsDone # {}
                        /\ sent_messages_counter' = cb_tmp + 1
                        /\ UNCHANGED <<sent_bytes_counter, received_bytes_counter,
                                       received_messages_counter>>
                 [] cb_pc = "rb_store" ->
                        /\ ReceivesDone # {}
                        /\ received_bytes_counter' = cb_tmp + Len(trace[2].val.val)
                        /\ UNCHANGED <<sent_bytes_counter, sent_messages_counter,
                                       received_messages_counter>>
                 [] cb_pc = "rm_store" ->
                        /\ ReceivesDone # {}
                        /\ received_messages_counter' = cb_tmp + 1
                        /\ UNCHANGED <<sent_bytes_counter, received_bytes_counter,
                                       sent_messages_counter>>
                 [] OTHER -> UNCHANGED counter_vars]_vars
    /\ []((variant = "debug" /\ InvocationOver /\ invocations = 1 /\ NoResetYet)
            => /\ sent_messages_counter = Cardinality(SendsDone)
               /\ sent_bytes_counter = Cardinality(SendsDone) * PacketSize(args)
               /\ received_messages_counter = Cardinality(ReceivesDone)
               /\ received_bytes_counter =
                    IF ReceivesDone = {} THEN 0 ELSE Len(trace[2].val.val))

C17_Witness ==
    /\ variant = "debug"
    /\ InvocationOver
    /\ invocations = 1
    /\ NoResetYet
    /\ cb_error = "ValueError"
    /\ sent_bytes_counter = PacketSize(args)
    /\ sent_messages_counter = 1
    /\ received_bytes_counter = PacketSize(args) + ItemSize
    /\ received_messages_counter = 1

=============================================================================
